---- MODULE Spec2Model ----
(***************************************************************************)
(* Finance Tracker (src/code/Finance-Tracker.py): the DataManager ledger   *)
(* store (in-memory document mirrored to one JSON file) and the            *)
(* FinanceController aggregator calculate_totals.                          *)
(*                                                                         *)
(* Fixed point: exchange rates, the budget and the totals are in tenths    *)
(* (rate 7.0 is 70, rate 0.9 is 9); entry amounts are whole units, so      *)
(* amount * rate is in tenths like the budget it is compared with.         *)
(* Entries are Python dicts: functions from the field names they carry.    *)
(***************************************************************************)
EXTENDS Integers, Sequences, FiniteSets, TLC

VARIABLES data, file_path, files, last, totals, ops, rows, chart, hist

\* the view and what it has reported: the rows of the entry list, the chart
\* data last drawn, and whether a save has succeeded / an operation failed
gui == <<rows, chart, hist>>

vars == <<data, file_path, files, last, totals, ops, gui>>

(* ------------------------------ bounds --------------------------------- *)
MaxOps == 3
MaxEntries == 3
MaxPlans == 1
MaxIndices == 3
MaxTotalsEntries == 2
MaxAppOps == 2

(* --------------------------- program constants ------------------------- *)
\* exchange_rates.get(currency, 1.0): 1.0 in tenths
DefaultRate == 10

\* DataManager.__init__: file_path = 'finance_data.json'; "other.json" stands
\* for any other path a file dialog hands to save_as / import_data.
DefaultPath == "finance_data.json"
Paths == {DefaultPath, "other.json"}

\* DataManager.__init__: self.data
Defaults ==
  [entries |-> <<>>,
   budget |-> 0,
   exchange_rates |-> [USD |-> 70, EUR |-> 80, HKD |-> 9, CNY |-> 10],
   plans |-> <<>>]

(* ------------------------------ entries -------------------------------- *)
\* Entry.to_dict(): asdict of the dataclass, all six fields
Entry(type, amount, currency) ==
  [type |-> type, amount |-> amount, currency |-> currency,
   category |-> "Salary", date |-> "2025-10-24", invoice |-> <<>>]

\* Plan.to_dict()
Plan(plan_type) ==
  [plan_type |-> plan_type, start_date |-> "2025-01-01", end_date |-> "2025-12-31",
   spending_limit |-> 1000, saving_goal |-> 500]

\* entry dicts as found in files on disk: any subset of the fields
LegacyIncome == [entry_type |-> "income", amount |-> 3, currency |-> "USD"]
LegacyBoth == [type |-> "expense", entry_type |-> "income", amount |-> 2, currency |-> "CNY"]
NoKind == [amount |-> 2, currency |-> "JPY"]
NoCurrency == [type |-> "expense", amount |-> 4]

(* ------------------------- files on disk ------------------------------- *)
\* What a path holds: nothing, bytes that are no JSON (also a partly written
\* file), a JSON object, or a JSON array (elements: 2-element arrays are
\* key/value pairs for dict.update, anything else makes dict.update raise).
Absent == [kind |-> "absent"]
Garbage == [kind |-> "garbage"]
JsonObject(obj) == [kind |-> "object", obj |-> obj]
JsonArray(elems) == [kind |-> "array", elems |-> elems]

CatalogIds == 1..7
Catalog(i) ==
  CASE i = 1 -> Absent
    [] i = 2 -> Garbage
    [] i = 3 -> JsonObject([entries |-> <<LegacyIncome, NoKind>>,
                            exchange_rates |-> [USD |-> 65]])
    [] i = 4 -> JsonObject([entries |-> <<NoCurrency, LegacyBoth>>,
                            budget |-> 50,
                            plans |-> <<Plan("monthly")>>])
    [] i = 5 -> JsonArray(<< <<"entries", <<LegacyIncome>> >>, <<"budget", 70>> >>)
    [] i = 6 -> JsonArray(<< <<"plans", <<Plan("weekly")>> >>, <<"budget", 70>>, <<1>> >>)
    [] i = 7 -> JsonObject([entries |-> <<Entry("expense", 4, "EUR"), Entry("income", 6, "USD")>>,
                            exchange_rates |-> [CNY |-> 10, USD |-> 0, EUR |-> -80]])

(* ---------------------- DataManager: helpers --------------------------- *)
\* entry['type'] = entry.pop('entry_type')
RenameLegacy(entry) ==
  IF "entry_type" \in DOMAIN entry
    THEN [f \in (DOMAIN entry \ {"entry_type"}) \cup {"type"} |->
            IF f = "type" THEN entry["entry_type"] ELSE entry[f]]
    ELSE entry

\* for entry in loaded_data['entries']: if 'entry_type' in entry: ...
NormalizeEntries(entries) == [i \in 1..Len(entries) |-> RenameLegacy(entries[i])]

\* if 'entries' in loaded_data: normalise them in place (a JSON object)
NormalizeObject(obj) ==
  IF "entries" \in DOMAIN obj
    THEN [k \in DOMAIN obj |-> IF k = "entries" THEN NormalizeEntries(obj[k]) ELSE obj[k]]
    ELSE obj

\* dict.update(other dict): every key of obj replaces the value held
UpdateMergingRates(d, obj) ==
  [k \in DOMAIN d \cup DOMAIN obj |->
     IF k \notin DOMAIN obj THEN d[k]
     ELSE IF k = "exchange_rates" /\ k \in DOMAIN d
       THEN [c \in DOMAIN d[k] \cup DOMAIN obj[k] |->
               IF c \in DOMAIN obj[k] THEN obj[k][c] ELSE d[k][c]]
       ELSE obj[k]]

Update(d, obj) ==
  [k \in DOMAIN d \cup DOMAIN obj |-> IF k \in DOMAIN obj THEN obj[k] ELSE d[k]]

\* dict.update(list): the elements are taken in order as key/value pairs, each
\* stored before the next is looked at; an element that is no pair raises and
\* what was stored stays.
RECURSIVE UpdateSeq(_, _)
UpdateSeq(d, elems) ==
  IF elems = <<>> THEN [raised |-> FALSE, data |-> d]
  ELSE IF Len(Head(elems)) # 2 THEN [raised |-> TRUE, data |-> d]
  ELSE UpdateSeq([k \in DOMAIN d \cup {Head(elems)[1]} |->
                    IF k = Head(elems)[1] THEN Head(elems)[2] ELSE d[k]],
                 Tail(elems))

\* json.load, the legacy rename and self.data.update(...) of load_data and
\* import_data, on the content read: [ok, data]. A JSON array has no element
\* equal to the string 'entries', so its entries are not renamed.
MergeParsed(d, content) ==
  CASE content.kind = "garbage" -> [ok |-> FALSE, data |-> d]
    [] content.kind = "object" ->
         [ok |-> TRUE, data |-> Update(d, NormalizeObject(content.obj))]
    [] content.kind = "array" ->
         [ok |-> ~UpdateSeq(d, content.elems).raised,
          data |-> UpdateSeq(d, content.elems).data]

\* load_data: [ok, data]; ioerr: open() raises on a file that exists
LoadResult(d, content, ioerr) ==
  IF content.kind = "absent" THEN [ok |-> FALSE, data |-> d]
  ELSE IF ioerr THEN [ok |-> FALSE, data |-> d]
  ELSE MergeParsed(d, content)

\* save_data: the file at path after the call. "fail_open": makedirs or open
\* raises, nothing written; "fail_write": open(path, 'w') has truncated the
\* file and json.dump raises part-way; "ok": the whole document is written.
SaveOutcomes == {"ok", "fail_open", "fail_write"}
WrittenFileWithoutPlans(old, d, outcome) ==
  CASE outcome = "ok" -> JsonObject([k \in DOMAIN d \ {"plans"} |-> d[k]])
    [] outcome = "fail_open" -> old
    [] outcome = "fail_write" -> Garbage

WrittenFile(old, d, outcome) ==
  CASE outcome = "ok" -> JsonObject(d)
    [] outcome = "fail_open" -> old
    [] outcome = "fail_write" -> Garbage

\* sorted(indices, reverse=True)
Unsorted(s) == s
RECURSIVE SortedReverse(_)
Max(S) == CHOOSE m \in S : \A x \in S : x <= m
RemoveFirst(s, v) ==
  LET i == CHOOSE j \in 1..Len(s) : s[j] = v /\ \A k \in 1..(j-1) : s[k] # v
  IN SubSeq(s, 1, i-1) \o SubSeq(s, i+1, Len(s))
SortedReverse(s) ==
  IF s = <<>> THEN <<>>
  ELSE LET m == Max({s[i] : i \in 1..Len(s)})
       IN <<m>> \o SortedReverse(RemoveFirst(s, m))

\* del lst[index], index 0-based
DelAt(lst, index) == SubSeq(lst, 1, index) \o SubSeq(lst, index + 2, Len(lst))

\* DataManager.delete_entries: the loop over sorted(indices, reverse=True)
RECURSIVE DeleteLoop(_, _)
RECURSIVE DeleteLoopNegativeFromEnd(_, _)
DeleteLoopNegativeFromEnd(entries, sortedIndices) ==
  IF sortedIndices = <<>> THEN entries
  ELSE LET index == Head(sortedIndices)
       IN DeleteLoopNegativeFromEnd(
            IF -Len(entries) <= index /\ index < Len(entries)
              THEN DelAt(entries, IF index < 0 THEN Len(entries) + index ELSE index)
              ELSE entries,
            Tail(sortedIndices))

DeleteLoop(entries, sortedIndices) ==
  IF sortedIndices = <<>> THEN entries
  ELSE LET index == Head(sortedIndices)
       IN DeleteLoop(IF 0 <= index /\ index < Len(entries)
                       THEN DelAt(entries, index) ELSE entries,
                     Tail(sortedIndices))
DeleteEntries(entries, indices) == DeleteLoop(entries, SortedReverse(indices))

\* DataManager.delete_plan
DeletePlan(plans, index) ==
  IF 0 <= index /\ index < Len(plans) THEN DelAt(plans, index) ELSE plans

(* -------------------- FinanceController.calculate_totals --------------- *)
\* entry.get('type', ''), then the entry_type fallback when that is empty
EntryType(entry) ==
  LET t == IF "type" \in DOMAIN entry THEN entry["type"] ELSE ""
  IN IF t = "" /\ "entry_type" \in DOMAIN entry THEN entry["entry_type"] ELSE t

\* exchange_rates.get(entry.get('currency', 'CNY'), 1.0)
RateOf(entry, exchange_rates) ==
  LET currency == IF "currency" \in DOMAIN entry THEN entry["currency"] ELSE "CNY"
  IN IF currency \in DOMAIN exchange_rates THEN exchange_rates[currency] ELSE DefaultRate

RECURSIVE TotalsLoop(_, _, _, _)
RECURSIVE TotalsLoopSkippingNoKind(_, _, _, _)
TotalsLoopSkippingNoKind(entries, exchange_rates, total_income, total_expenses) ==
  IF entries = <<>> THEN [total_income |-> total_income, total_expenses |-> total_expenses]
  ELSE LET entry == Head(entries)
           converted_amount == entry["amount"] * RateOf(entry, exchange_rates)
       IN IF EntryType(entry) = "income"
            THEN TotalsLoopSkippingNoKind(Tail(entries), exchange_rates,
                                          total_income + converted_amount, total_expenses)
            ELSE IF EntryType(entry) = "expense"
            THEN TotalsLoopSkippingNoKind(Tail(entries), exchange_rates,
                                          total_income, total_expenses + converted_amount)
            ELSE TotalsLoopSkippingNoKind(Tail(entries), exchange_rates,
                                          total_income, total_expenses)

RECURSIVE TotalsLoopDroppingNegative(_, _, _, _)
TotalsLoopDroppingNegative(entries, exchange_rates, total_income, total_expenses) ==
  IF entries = <<>> THEN [total_income |-> total_income, total_expenses |-> total_expenses]
  ELSE LET entry == Head(entries)
           converted_amount == IF entry["amount"] < 0 THEN 0
                               ELSE entry["amount"] * RateOf(entry, exchange_rates)
       IN IF EntryType(entry) = "income"
            THEN TotalsLoopDroppingNegative(Tail(entries), exchange_rates,
                                            total_income + converted_amount, total_expenses)
            ELSE TotalsLoopDroppingNegative(Tail(entries), exchange_rates,
                                            total_income, total_expenses + converted_amount)

TotalsLoop(entries, exchange_rates, total_income, total_expenses) ==
  IF entries = <<>> THEN [total_income |-> total_income, total_expenses |-> total_expenses]
  ELSE LET entry == Head(entries)
           converted_amount == entry["amount"] * RateOf(entry, exchange_rates)
       IN IF EntryType(entry) = "income"
            THEN TotalsLoop(Tail(entries), exchange_rates,
                            total_income + converted_amount, total_expenses)
            ELSE TotalsLoop(Tail(entries), exchange_rates,
                            total_income, total_expenses + converted_amount)

TotalsBudgetNotSubtracted(d) ==
  LET t == TotalsLoop(d.entries, d.exchange_rates, 0, 0)
  IN [total_income |-> t.total_income,
      total_expenses |-> t.total_expenses,
      budget |-> d.budget,
      net_income |-> t.total_income - t.total_expenses]

CalculateTotals(d) ==
  LET t == TotalsLoop(d.entries, d.exchange_rates, 0, 0)
  IN [total_income |-> t.total_income,
      total_expenses |-> t.total_expenses,
      budget |-> d.budget,
      net_income |-> t.total_income - t.total_expenses - d.budget]

\* the absolute value, abs()
Abs(x) == IF x < 0 THEN -x ELSE x

\* FinanceController.pie_analytics: the dict handed to update_chart. The keys
\* income, expenses, deficit and surplus stand for the source's Chinese
\* labels (shou-ru, zhi-chu, chi-zi, jie-yu).
PieDataSurplusAtZero(t) ==
  LET d == [income |-> t.total_income, expenses |-> t.total_expenses]
  IN IF t.net_income < 0 THEN d @@ [deficit |-> Abs(t.net_income)]
     ELSE d @@ [surplus |-> t.net_income]

PieData(t) ==
  LET d == [income |-> t.total_income, expenses |-> t.total_expenses]
  IN IF t.net_income < 0 THEN d @@ [deficit |-> Abs(t.net_income)]
     ELSE IF t.net_income > 0 THEN d @@ [surplus |-> t.net_income]
     ELSE d

\* MainView.update_chart('pie', data): only the buckets above zero are drawn
Drawn(d) == [k \in {x \in DOMAIN d : d[x] > 0} |-> d[k]]

(* ------------------------------ state ---------------------------------- *)
\* the document, path and files as they were when the last operation began
Pre == [data |-> data, file_path |-> file_path, files |-> files]

Did(op, ok, arg) == last' = [op |-> op, ok |-> ok, arg |-> arg, pre |-> Pre]

Step == ops < MaxOps /\ ops' = ops + 1

NoTotals == [total_income |-> 0, total_expenses |-> 0, budget |-> 0, net_income |-> 0]

\* nothing shown, nothing drawn, nothing reported yet
NoHist == [saved_once |-> FALSE, save_failed |-> FALSE, op_failed |-> FALSE]
NoGui == rows = <<>> /\ chart = <<>> /\ hist = NoHist

(* ------------------------ DataManager: operations ---------------------- *)
\* load_data(); ioerr: open() raises although the file exists
load_data(ioerr) ==
  /\ Step
  /\ ioerr => files[file_path].kind # "absent"
  /\ LET r == LoadResult(data, files[file_path], ioerr)
     IN /\ data' = r.data
        /\ Did("load_data", r.ok, ioerr)
  /\ UNCHANGED <<file_path, files, totals, gui>>

\* save_data()
save_data(outcome) ==
  /\ Step
  /\ files' = [files EXCEPT ![file_path] = WrittenFile(@, data, outcome)]
  /\ Did("save_data", outcome = "ok", file_path)
  /\ UNCHANGED <<data, file_path, totals, gui>>

\* save_as(new_file_path): the path is switched, save_data() runs, and the
\* path is put back when it returns False
save_as_keeping_new_path(new_file_path, outcome) ==
  /\ Step
  /\ files' = [files EXCEPT ![new_file_path] = WrittenFile(@, data, outcome)]
  /\ file_path' = new_file_path
  /\ Did("save_as", outcome = "ok", new_file_path)
  /\ UNCHANGED <<data, totals, gui>>

save_as(new_file_path, outcome) ==
  /\ Step
  /\ LET original_path == file_path
         saved == (outcome = "ok")
     IN /\ files' = [files EXCEPT ![new_file_path] = WrittenFile(@, data, outcome)]
        /\ file_path' = IF saved THEN new_file_path ELSE original_path
        /\ Did("save_as", saved, new_file_path)
  /\ UNCHANGED <<data, totals, gui>>

\* import_data(import_file_path): what it returns and leaves behind. stage is
\* how far it got: the open, the parse and merge, or the save.
ImportResult(d, path, fs, import_file_path, ioerr, outcome) ==
  LET content == fs[import_file_path]
      m == MergeParsed(d, content)
  IN IF content.kind = "absent" \/ ioerr
       THEN \* open() raises: except branch, return False
            [ok |-> FALSE, stage |-> "open", data |-> d, file_path |-> path, files |-> fs]
       ELSE IF ~m.ok
       THEN \* json.load or update raises: except branch, return False
            [ok |-> FALSE, stage |-> "parse", data |-> m.data, file_path |-> path,
             files |-> fs]
       ELSE \* merged: the path is switched, then save_data() decides
            [ok |-> outcome = "ok", stage |-> "save", data |-> m.data,
             file_path |-> import_file_path,
             files |-> [fs EXCEPT ![import_file_path] = WrittenFile(@, m.data, outcome)]]

import_data(import_file_path, ioerr, outcome) ==
  /\ Step
  /\ LET r == ImportResult(data, file_path, files, import_file_path, ioerr, outcome)
     IN /\ data' = r.data
        /\ file_path' = r.file_path
        /\ files' = r.files
        /\ Did("import_data", r.ok, import_file_path)
  /\ UNCHANGED <<totals, gui>>

\* add_entry(entry)
add_entry(entry) ==
  /\ Step
  /\ Len(data.entries) < MaxEntries
  /\ data' = [data EXCEPT !.entries = Append(@, entry)]
  /\ Did("add_entry", TRUE, entry)
  /\ UNCHANGED <<file_path, files, totals, gui>>

\* delete_entries(indices)
delete_entries(indices) ==
  /\ Step
  /\ data' = [data EXCEPT !.entries = DeleteEntries(@, indices)]
  /\ Did("delete_entries", TRUE, indices)
  /\ UNCHANGED <<file_path, files, totals, gui>>

\* set_budget(budget)
set_budget(budget) ==
  /\ Step
  /\ data' = [data EXCEPT !.budget = budget]
  /\ Did("set_budget", TRUE, budget)
  /\ UNCHANGED <<file_path, files, totals, gui>>

\* set_exchange_rates(rates)
set_exchange_rates(rates) ==
  /\ Step
  /\ data' = [data EXCEPT !.exchange_rates = rates]
  /\ Did("set_exchange_rates", TRUE, rates)
  /\ UNCHANGED <<file_path, files, totals, gui>>

\* add_plan(plan)
add_plan(plan) ==
  /\ Step
  /\ Len(data.plans) < MaxPlans
  /\ data' = [data EXCEPT !.plans = Append(@, plan)]
  /\ Did("add_plan", TRUE, plan)
  /\ UNCHANGED <<file_path, files, totals, gui>>

\* delete_plan(index)
delete_plan(index) ==
  /\ Step
  /\ data' = [data EXCEPT !.plans = DeletePlan(@, index)]
  /\ Did("delete_plan", TRUE, index)
  /\ UNCHANGED <<file_path, files, totals, gui>>

\* FinanceController.calculate_totals()
calculate_totals ==
  /\ Step
  /\ totals' = CalculateTotals(data)
  /\ Did("calculate_totals", TRUE, <<>>)
  /\ UNCHANGED <<data, file_path, files, gui>>

\* FinanceController.pie_analytics()
pie_analytics ==
  /\ Step
  /\ totals' = CalculateTotals(data)
  /\ chart' = [kind |-> "pie", data |-> PieData(totals'), drawn |-> Drawn(PieData(totals'))]
  /\ Did("pie_analytics", TRUE, <<>>)
  /\ UNCHANGED <<data, file_path, files, rows, hist>>

(* --------------------- the store with its files ------------------------ *)
\* DataManager(): the defaults, then load_data() from the default path
Init ==
  \E c1 \in CatalogIds, c2 \in CatalogIds, ioerr \in BOOLEAN :
    /\ ioerr => Catalog(c1).kind # "absent"
    /\ files = [p \in Paths |-> IF p = DefaultPath THEN Catalog(c1) ELSE Catalog(c2)]
    /\ file_path = DefaultPath
    /\ LET r == LoadResult(Defaults, Catalog(c1), ioerr)
       IN /\ data = r.data
          /\ last = [op |-> "load_data", ok |-> r.ok, arg |-> ioerr,
                     pre |-> [data |-> Defaults, file_path |-> DefaultPath,
                              files |-> files]]
    /\ totals = NoTotals
    /\ ops = 0
    /\ NoGui

RecordedEntries == {Entry("income", 1, "CNY"), Entry("expense", 2, "USD")}
SomeIndices == {<<0>>, <<0, 1>>, <<5>>}
SomeRates == {[CNY |-> 10, USD |-> 72]}

Next ==
  \/ \E ioerr \in BOOLEAN : load_data(ioerr)
  \/ \E outcome \in SaveOutcomes : save_data(outcome)
  \/ \E p \in Paths, outcome \in SaveOutcomes : save_as(p, outcome)
  \/ \E p \in Paths, ioerr \in BOOLEAN, outcome \in SaveOutcomes :
        import_data(p, ioerr, outcome)
  \/ \E entry \in RecordedEntries : add_entry(entry)
  \/ \E indices \in SomeIndices : delete_entries(indices)
  \/ \E budget \in {20} : set_budget(budget)
  \/ \E rates \in SomeRates : set_exchange_rates(rates)
  \/ \E plan \in {Plan("yearly")} : add_plan(plan)
  \/ \E index \in {0, 1} : delete_plan(index)

Spec == Init /\ [][Next]_vars

(* --------------------- the aggregator on any document ------------------ *)
\* entry dicts calculate_totals may be handed: canonical, legacy, without a
\* kind, with an empty or a malformed kind, without a currency
EmptyKindLegacy == [type |-> "", entry_type |-> "income", amount |-> 1, currency |-> "EUR"]
MalformedKind == [type |-> "Income", amount |-> 5, currency |-> "HKD"]
TotalsEntries(i) ==
  CASE i = 1 -> Entry("income", 1000, "CNY")
    [] i = 2 -> Entry("expense", 200, "USD")
    [] i = 3 -> LegacyIncome
    [] i = 4 -> NoKind
    [] i = 5 -> NoCurrency
    [] i = 6 -> EmptyKindLegacy
    [] i = 7 -> MalformedKind
TotalsEntryIds == 1..7

SeqsUpTo(S, n) == UNION {[1..k -> S] : k \in 0..n}

InitTotals ==
  \E ids \in SeqsUpTo(TotalsEntryIds, MaxTotalsEntries),
     budget \in {0, 5000},
     rates \in {Defaults.exchange_rates, [CNY |-> 10, USD |-> 70]} :
    /\ data = [entries |-> [i \in 1..Len(ids) |-> TotalsEntries(ids[i])],
               budget |-> budget, exchange_rates |-> rates, plans |-> <<>>]
    /\ file_path = DefaultPath
    /\ files = [p \in Paths |-> Absent]
    /\ last = [op |-> "init", ok |-> TRUE, arg |-> <<>>, pre |-> Pre]
    /\ totals = NoTotals
    /\ ops = 0
    /\ NoGui

NextTotals == calculate_totals \/ pie_analytics

SpecTotals == InitTotals /\ [][NextTotals]_vars

(* ------------------- delete_entries on any index list ------------------ *)
DeleteAlphabet == {Entry("income", 1, "CNY"), Entry("expense", 2, "USD"),
                   Entry("expense", 3, "EUR")}
IndexValues == (-1..MaxEntries) \cup {99}
DeletePlans == {<<>>, <<Plan("monthly")>>, <<Plan("monthly"), Plan("weekly")>>}

InitDelete ==
  \E entries \in SeqsUpTo(DeleteAlphabet, MaxEntries), plans \in DeletePlans :
    /\ data = [Defaults EXCEPT !.entries = entries, !.plans = plans]
    /\ file_path = DefaultPath
    /\ files = [p \in Paths |-> Absent]
    /\ last = [op |-> "init", ok |-> TRUE, arg |-> <<>>, pre |-> Pre]
    /\ totals = NoTotals
    /\ ops = 0
    /\ NoGui

\* one call per behaviour, on the entries and the index list drawn
NextDelete ==
  /\ last.op = "init"
  /\ \/ \E indices \in SeqsUpTo(IndexValues, MaxIndices) : delete_entries(indices)
     \/ \E index \in IndexValues : delete_plan(index)

SpecDelete == InitDelete /\ [][NextDelete]_vars

(* ------------------- FinanceController and MainView -------------------- *)
\* tk.DoubleVar.get() on the text of an entry field: the number, or TclError
ParseDouble(text) ==
  CASE text = "5" -> [ok |-> TRUE, value |-> 5]
    [] text = "2" -> [ok |-> TRUE, value |-> 2]
    [] text = "0" -> [ok |-> TRUE, value |-> 0]
    [] text = "-1" -> [ok |-> TRUE, value |-> -1]
    [] OTHER -> [ok |-> FALSE, value |-> 0]

\* str.lower() and str.capitalize() on the kinds met
Lower(text) ==
  CASE text = "Income" -> "income"
    [] text = "Expense" -> "expense"
    [] OTHER -> text

Capitalize(text) ==
  CASE text = "income" -> "Income"
    [] text = "expense" -> "Expense"
    [] OTHER -> text

\* the fields of a date text split at '-', when it has that shape
SplitDate(text) ==
  CASE text = "2025-10-24" -> [ok |-> TRUE, year |-> 2025, month |-> 10, day |-> 24]
    [] text = "2024-02-29" -> [ok |-> TRUE, year |-> 2024, month |-> 2, day |-> 29]
    [] text = "2025-02-30" -> [ok |-> TRUE, year |-> 2025, month |-> 2, day |-> 30]
    [] text = "2025-13-45" -> [ok |-> TRUE, year |-> 2025, month |-> 13, day |-> 45]
    [] OTHER -> [ok |-> FALSE, year |-> 0, month |-> 0, day |-> 0]

IsLeap(year) == year % 4 = 0 /\ (year % 100 # 0 \/ year % 400 = 0)
DaysInMonth(year, month) ==
  IF month = 2 THEN (IF IsLeap(year) THEN 29 ELSE 28)
  ELSE IF month \in {4, 6, 9, 11} THEN 30 ELSE 31

\* datetime.strptime(text, '%Y-%m-%d') does not raise
Strptime(text) ==
  LET p == SplitDate(text)
  IN /\ p.ok
     /\ 1 <= p.month /\ p.month <= 12
     /\ 1 <= p.day /\ p.day <= DaysInMonth(p.year, p.month)

\* MainView.get_entry_data(): ok is FALSE when amount_var.get() raises
GetEntryData(form) ==
  [ok |-> ParseDouble(form.amount).ok,
   data |-> [type |-> Lower(form.type),
             amount |-> ParseDouble(form.amount).value,
             currency |-> form.currency,
             category |-> form.category,
             date |-> form.date,
             invoice_type |-> form.invoice_type,
             invoice_info |-> form.invoice_info]]

\* FinanceController._validate_entry_data
ValidateIgnoringAmount(d) ==
  /\ Strptime(d.date)
  /\ ~(d.invoice_type # "none" /\ d.invoice_info = "")
  /\ d.type # ""

ValidateEntryData(d) ==
  /\ d.amount > 0
  /\ Strptime(d.date)
  /\ ~(d.invoice_type # "none" /\ d.invoice_info = "")
  /\ d.type # ""

\* Entry(...).to_dict() as record_entry builds it; an invoice dict is the
\* pair <<type, info>>, no invoice (None) the empty tuple
NewEntry(d) ==
  [type |-> d.type, amount |-> d.amount, currency |-> d.currency,
   category |-> d.category, date |-> d.date,
   invoice |-> IF d.invoice_type # "none"
                 THEN <<d.invoice_type, d.invoice_info>> ELSE <<>>]

\* MainView.update_treeview: one row per entry; building a row raises
\* KeyError on an entry without amount, category or date, after the rows of
\* the entries before it were inserted
Displayable(entry) == {"amount", "category", "date"} \subseteq DOMAIN entry
RowOf(i, entry) ==
  [no |-> i,
   type |-> Capitalize(EntryType(entry)),
   amount |-> entry["amount"],
   currency |-> IF "currency" \in DOMAIN entry THEN entry["currency"] ELSE "CNY",
   category |-> entry["category"],
   date |-> entry["date"],
   invoice |-> IF "invoice" \in DOMAIN entry THEN entry["invoice"] ELSE <<>>]
UpdateTreeview(entries) ==
  LET bad == {i \in 1..Len(entries) : ~Displayable(entries[i])}
      shown == IF bad = {} THEN Len(entries)
               ELSE (CHOOSE i \in bad : \A j \in bad : i <= j) - 1
  IN [ok |-> bad = {}, rows |-> [i \in 1..shown |-> RowOf(i, entries[i])]]

\* what happened to the saves so far: one succeeded; one failed since the
\* last that succeeded; an operation failed since the last save that succeeded
HistAfter(h, attempted, saved, failed) ==
  [saved_once |-> h.saved_once \/ saved,
   save_failed |-> IF saved THEN FALSE ELSE (h.save_failed \/ attempted),
   op_failed |-> IF saved THEN FALSE ELSE (h.op_failed \/ failed)]

AppStep == ops < MaxAppOps /\ ops' = ops + 1

\* a handler that returns after a message, having changed nothing
Rejected(op, arg) ==
  /\ Did(op, FALSE, arg)
  /\ UNCHANGED <<data, file_path, files, rows, hist>>

\* the tail of the handlers that change the document: save_data(), then the
\* refresh of the rows when the handler makes one and the save succeeded
SavedAndShown(op, arg, d, outcome, refresh) ==
  LET saved == (outcome = "ok")
      shown == UpdateTreeview(d.entries)
  IN /\ data' = d
     /\ files' = [files EXCEPT ![file_path] = WrittenFile(@, d, outcome)]
     /\ rows' = IF saved /\ refresh THEN shown.rows ELSE rows
     /\ hist' = HistAfter(hist, TRUE, saved, ~saved)
     /\ Did(op, saved /\ (refresh => shown.ok), arg)
     /\ UNCHANGED file_path

\* FinanceController.record_entry()
record_entry(form) ==
  /\ AppStep
  /\ Len(data.entries) < MaxEntries
  /\ LET got == GetEntryData(form)
     IN IF ~got.ok \/ ~ValidateEntryData(got.data)
          THEN Rejected("record_entry", form)
          ELSE \E outcome \in SaveOutcomes :
                 SavedAndShown("record_entry", form,
                               [data EXCEPT !.entries = Append(@, NewEntry(got.data))],
                               outcome, TRUE)
  /\ UNCHANGED <<totals, chart>>

\* FinanceController.delete_entries(); selection: the positions of the rows
\* selected in the tree, confirmed: the answer to the confirmation dialog
controller_delete_entries(selection, confirmed) ==
  /\ AppStep
  /\ IF selection = <<>> \/ ~confirmed
       THEN Rejected("controller_delete_entries", selection)
       ELSE \E outcome \in SaveOutcomes :
              SavedAndShown("controller_delete_entries", selection,
                            [data EXCEPT !.entries = DeleteEntries(@, selection)],
                            outcome, TRUE)
  /\ UNCHANGED <<totals, chart>>

controller_set_budget_unchecked(text) ==
  /\ AppStep
  /\ LET budget == ParseDouble(text)
     IN IF ~budget.ok \/ budget.value < 0
          THEN Rejected("controller_set_budget", text)
          ELSE \E outcome \in SaveOutcomes :
                 /\ data' = [data EXCEPT !.budget = 10 * budget.value]
                 /\ files' = [files EXCEPT ![file_path] = WrittenFile(@, data', outcome)]
                 /\ hist' = HistAfter(hist, TRUE, outcome = "ok", outcome # "ok")
                 /\ Did("controller_set_budget", TRUE, text)
                 /\ UNCHANGED <<file_path, rows>>
  /\ UNCHANGED <<totals, chart>>

\* FinanceController.set_budget(); text: the content of the budget field
controller_set_budget(text) ==
  /\ AppStep
  /\ LET budget == ParseDouble(text)
     IN IF ~budget.ok \/ budget.value < 0
          THEN Rejected("controller_set_budget", text)
          ELSE \E outcome \in SaveOutcomes :
                 SavedAndShown("controller_set_budget", text,
                               [data EXCEPT !.budget = 10 * budget.value],
                               outcome, FALSE)
  /\ UNCHANGED <<totals, chart>>

\* FinanceController.import_data(); chosen: the path the file dialog returns,
\* empty when it was cancelled
controller_import_data(chosen, ioerr, outcome) ==
  /\ AppStep
  /\ IF chosen = ""
       THEN Rejected("controller_import_data", chosen)
       ELSE LET r == ImportResult(data, file_path, files, chosen, ioerr, outcome)
                shown == UpdateTreeview(r.data.entries)
            IN /\ data' = r.data
               /\ file_path' = r.file_path
               /\ files' = r.files
               /\ rows' = IF r.ok THEN shown.rows ELSE rows
               /\ hist' = HistAfter(hist, r.stage = "save", r.ok, ~r.ok)
               /\ Did("controller_import_data", r.ok /\ shown.ok, chosen)
  /\ UNCHANGED <<totals, chart>>

\* FinanceController.save_as_data()
save_as_data(chosen, outcome) ==
  /\ AppStep
  /\ IF chosen = ""
       THEN Rejected("save_as_data", chosen)
       ELSE LET saved == (outcome = "ok")
            IN /\ files' = [files EXCEPT ![chosen] = WrittenFile(@, data, outcome)]
               /\ file_path' = IF saved THEN chosen ELSE file_path
               /\ hist' = HistAfter(hist, TRUE, saved, ~saved)
               /\ Did("save_as_data", saved, chosen)
               /\ UNCHANGED <<data, rows>>
  /\ UNCHANGED <<totals, chart>>

\* FinanceController.save_data()
controller_save_data(outcome) ==
  /\ AppStep
  /\ SavedAndShown("controller_save_data", file_path, data, outcome, FALSE)
  /\ UNCHANGED <<totals, chart>>

\* FinanceController.save_exchange_rates(); new_rates: ExchangeRateView.get_rates()
save_exchange_rates(new_rates) ==
  /\ AppStep
  /\ IF \E currency \in DOMAIN new_rates : new_rates[currency] <= 0
       THEN Rejected("save_exchange_rates", new_rates)
       ELSE \E outcome \in SaveOutcomes :
              SavedAndShown("save_exchange_rates", new_rates,
                            [data EXCEPT !.exchange_rates = new_rates @@ @],
                            outcome, FALSE)
  /\ UNCHANGED <<totals, chart>>

\* FinanceController.add_plan(); plan: PlanView.get_plan_data()
controller_add_plan(plan) ==
  /\ AppStep
  /\ Len(data.plans) < MaxPlans
  /\ IF plan.spending_limit < 0 \/ plan.saving_goal < 0
       THEN Rejected("controller_add_plan", plan)
       ELSE \E outcome \in SaveOutcomes :
              SavedAndShown("controller_add_plan", plan,
                            [data EXCEPT !.plans = Append(@, plan)], outcome, FALSE)
  /\ UNCHANGED <<totals, chart>>

\* FinanceController.delete_plan(); index: get_selected_plan_index()
controller_delete_plan(index, confirmed) ==
  /\ AppStep
  /\ IF index = -1 \/ ~confirmed
       THEN Rejected("controller_delete_plan", index)
       ELSE \E outcome \in SaveOutcomes :
              SavedAndShown("controller_delete_plan", index,
                            [data EXCEPT !.plans = DeletePlan(@, index)], outcome, FALSE)
  /\ UNCHANGED <<totals, chart>>

\* FinanceController(): DataManager(), then update_display(); a start whose
\* update_display raises never reaches the main loop
InitApp ==
  \E c1 \in CatalogIds, c2 \in CatalogIds :
    /\ files = [p \in Paths |-> IF p = DefaultPath THEN Catalog(c1) ELSE Catalog(c2)]
    /\ file_path = DefaultPath
    /\ LET r == LoadResult(Defaults, Catalog(c1), FALSE)
       IN /\ data = r.data
          /\ UpdateTreeview(r.data.entries).ok
          /\ rows = UpdateTreeview(r.data.entries).rows
          /\ last = [op |-> "load_data", ok |-> r.ok, arg |-> FALSE,
                     pre |-> [data |-> Defaults, file_path |-> DefaultPath,
                              files |-> files]]
    /\ totals = NoTotals
    /\ ops = 0
    /\ chart = <<>>
    /\ hist = NoHist

\* what the user may type, select or choose
BaseForm ==
  [type |-> "Income", amount |-> "5", currency |-> "CNY", category |-> "Salary",
   date |-> "2025-10-24", invoice_type |-> "none", invoice_info |-> ""]
EntryForms ==
  {BaseForm,
   [BaseForm EXCEPT !.type = "Expense", !.amount = "2", !.currency = "USD",
                    !.date = "2024-02-29", !.invoice_type = "electronic",
                    !.invoice_info = "inv.pdf"],
   [BaseForm EXCEPT !.amount = "0"],
   [BaseForm EXCEPT !.amount = "-1"],
   [BaseForm EXCEPT !.amount = "abc"],
   [BaseForm EXCEPT !.date = "2025-02-30"],
   [BaseForm EXCEPT !.date = "2025-13-45"],
   [BaseForm EXCEPT !.date = "24/10/2025"],
   [BaseForm EXCEPT !.invoice_type = "paper"],
   [BaseForm EXCEPT !.type = ""]}
SomeSelections == {<<>>, <<0>>, <<1>>, <<0, 1>>}
Selections == {s \in SomeSelections : \A i \in 1..Len(s) : s[i] < Len(rows)}
BudgetTexts == {"5", "-1", "abc"}
RateForms == {[USD |-> 72, EUR |-> 80, HKD |-> 9], [USD |-> 0, EUR |-> 80, HKD |-> 9]}
PlanForms == {Plan("yearly"), [Plan("yearly") EXCEPT !.spending_limit = -1]}

NextApp ==
  \/ \E form \in EntryForms : record_entry(form)
  \/ \E selection \in Selections, confirmed \in BOOLEAN :
        controller_delete_entries(selection, confirmed)
  \/ \E text \in BudgetTexts : controller_set_budget(text)
  \/ \E chosen \in Paths \cup {""}, ioerr \in BOOLEAN, outcome \in SaveOutcomes :
        controller_import_data(chosen, ioerr, outcome)
  \/ \E chosen \in Paths \cup {""}, outcome \in SaveOutcomes : save_as_data(chosen, outcome)
  \/ \E outcome \in SaveOutcomes : controller_save_data(outcome)
  \/ \E new_rates \in RateForms : save_exchange_rates(new_rates)
  \/ \E plan \in PlanForms : controller_add_plan(plan)
  \/ \E index \in {-1, 0}, confirmed \in BOOLEAN : controller_delete_plan(index, confirmed)

SpecApp == InitApp /\ [][NextApp]_vars

(* ======================= properties of the code ======================== *)
\* an entry's kind as a reader of the document sees it: the canonical field,
\* or the legacy field when the canonical one is missing or empty
KindOf(entry) ==
  IF "type" \in DOMAIN entry /\ entry["type"] # "" THEN entry["type"]
  ELSE IF "entry_type" \in DOMAIN entry THEN entry["entry_type"]
  ELSE ""

\* amount * rate, the rate being the table's or 1.0 for an unknown currency
Converted(entry, rates) ==
  entry["amount"] *
    (IF "currency" \in DOMAIN entry
       THEN (IF entry["currency"] \in DOMAIN rates THEN rates[entry["currency"]] ELSE 10)
       ELSE (IF "CNY" \in DOMAIN rates THEN rates["CNY"] ELSE 10))

RECURSIVE SumOver(_, _, _)
SumOver(I, entries, rates) ==
  IF I = {} THEN 0
  ELSE LET i == CHOOSE j \in I : TRUE
       IN Converted(entries[i], rates) + SumOver(I \ {i}, entries, rates)

IncomeIndices(entries) == {i \in 1..Len(entries) : KindOf(entries[i]) = "income"}
OtherIndices(entries) == {i \in 1..Len(entries) : KindOf(entries[i]) # "income"}

ScenarioDocument ==
  [entries |-> <<Entry("income", 1000, "CNY"), Entry("expense", 200, "USD")>>,
   budget |-> 5000,
   exchange_rates |-> [CNY |-> 10, USD |-> 70],
   plans |-> <<>>]

\* C1: calculate_totals returns total_income = the sum of amount*rate over the
\* income entries, total_expenses = the sum over all other entries and
\* net_income = total_income - total_expenses - budget, the rate being 1.0 for
\* a currency absent from the table; the scenario document (1000 CNY income,
\* 200 USD expense at 7.0, budget 500) gives 1000, 1400 and -900.
C1_TotalsAreSums ==
  last.op = "calculate_totals" =>
    /\ totals.total_income = SumOver(IncomeIndices(data.entries), data.entries,
                                     data.exchange_rates)
    /\ totals.total_expenses = SumOver(OtherIndices(data.entries), data.entries,
                                       data.exchange_rates)
    /\ totals.budget = data.budget
    /\ totals.net_income = totals.total_income - totals.total_expenses - data.budget
    /\ data = ScenarioDocument =>
         /\ totals.total_income = 10000
         /\ totals.total_expenses = 14000
         /\ totals.net_income = -9000

C1_Witness ==
  /\ last.op = "calculate_totals"
  /\ data = ScenarioDocument
  /\ totals.net_income = -9000

\* the document without the entry at position i (1-based)
WithoutEntry(d, i) ==
  [d EXCEPT !.entries = SubSeq(@, 1, i - 1) \o SubSeq(@, i + 1, Len(@))]

\* C2: every entry contributes its converted amount to exactly one of
\* total_income and total_expenses: to total_income when its kind is income,
\* to total_expenses for any other, malformed, empty or missing kind; leaving
\* the entry out changes that total by its converted amount and the other
\* total not at all.
C2_EachEntryCountedOnce ==
  last.op = "calculate_totals" =>
    \A i \in 1..Len(data.entries) :
      LET rest == CalculateTotals(WithoutEntry(data, i))
          c == Converted(data.entries[i], data.exchange_rates)
      IN IF KindOf(data.entries[i]) = "income"
           THEN /\ totals.total_income = rest.total_income + c
                /\ totals.total_expenses = rest.total_expenses
           ELSE /\ totals.total_income = rest.total_income
                /\ totals.total_expenses = rest.total_expenses + c

C2_Witness ==
  /\ last.op = "calculate_totals"
  /\ data.entries = <<NoKind, MalformedKind>>
  /\ totals.total_income = 0
  /\ totals.total_expenses =
       Converted(NoKind, data.exchange_rates) + Converted(MalformedKind, data.exchange_rates)
  /\ totals.total_expenses > 0

IsDistinct(s) == \A i, j \in 1..Len(s) : i # j => s[i] # s[j]
InRange(s, n) == \A i \in 1..Len(s) : 0 <= s[i] /\ s[i] < n
Elements(s) == {s[i] : i \in 1..Len(s)}

\* the entries at the 0-based positions outside S, in their order
RECURSIVE KeepOutside(_, _, _)
KeepOutside(entries, S, pos) ==
  IF pos >= Len(entries) THEN <<>>
  ELSE (IF pos \in S THEN <<>> ELSE <<entries[pos + 1]>>)
         \o KeepOutside(entries, S, pos + 1)

\* C3: for distinct in-range indices in any order, delete_entries leaves
\* exactly the entries whose original positions are not listed, in their
\* original order.
C3_DeleteLeavesTheOthers ==
  (/\ last.op = "delete_entries"
   /\ IsDistinct(last.arg)
   /\ InRange(last.arg, Len(last.pre.data.entries)))
  => data.entries = KeepOutside(last.pre.data.entries, Elements(last.arg), 0)

C3_Witness ==
  /\ last.op = "delete_entries"
  /\ last.arg = <<0, 2>>
  /\ Len(last.pre.data.entries) = 3
  /\ last.pre.data.entries[1] # last.pre.data.entries[2]
  /\ data.entries = <<last.pre.data.entries[2]>>

\* C4: whenever import_data returns False, whatever the cause, the document
\* and the remembered path are those held before the call.
C4_FailedImportChangesNothing ==
  (last.op = "import_data" /\ ~last.ok) =>
    /\ data = last.pre.data
    /\ file_path = last.pre.file_path

\* C5 as stated: after save_as the remembered path is the new path if and
\* only if the save succeeded, it is the prior path on failure, and the
\* document is unchanged.
C5_PathIsNewIffSaved ==
  last.op = "save_as" =>
    /\ (file_path = last.arg) <=> last.ok
    /\ ~last.ok => file_path = last.pre.file_path
    /\ data = last.pre.data

\* C5 (amended): after save_as the remembered path is the new path when the
\* save succeeded and the path held before the call when it failed (the two
\* coincide when the new path is the one already held); the document is
\* unchanged in both cases.
C5_PathFollowsTheSave ==
  last.op = "save_as" =>
    /\ last.ok => file_path = last.arg
    /\ ~last.ok => file_path = last.pre.file_path
    /\ data = last.pre.data

C5_Witness ==
  /\ last.op = "save_as"
  /\ ~last.ok
  /\ last.arg # last.pre.file_path
  /\ file_path = last.pre.file_path
  /\ data = last.pre.data
  /\ data # Defaults

\* C6: a save_data or save_as that fails leaves the target file either as it
\* was before the call or holding the complete new document, never partly
\* written.
C6_NoPartialFile ==
  (last.op \in {"save_data", "save_as"} /\ ~last.ok) =>
    \/ files[last.arg] = last.pre.files[last.arg]
    \/ files[last.arg] = JsonObject(data)

\* the top-level keys of a parsed file with their values (for an array of
\* pairs, the last value given for a key)
TopLevel(content) ==
  IF content.kind = "object" THEN content.obj
  ELSE LET e == content.elems
           LastOf(k) == CHOOSE i \in 1..Len(e) :
                           e[i][1] = k /\ \A j \in (i + 1)..Len(e) : e[j][1] # k
       IN [k \in {e[i][1] : i \in 1..Len(e)} |-> e[LastOf(k)][2]]

Canonical(entries) ==
  [i \in 1..Len(entries) |->
     IF "entry_type" \in DOMAIN entries[i]
       THEN [f \in (DOMAIN entries[i] \ {"entry_type"}) \cup {"type"} |->
               IF f = "type" THEN entries[i]["entry_type"] ELSE entries[i][f]]
       ELSE entries[i]]

\* C7: a successful load_data is a shallow merge: the value of every
\* top-level key present in the file is, whole, the file's value (the entries
\* possibly with the legacy field renamed; a file with a partial
\* exchange_rates leaves exactly its currencies in the table), and every
\* key absent from the file keeps its in-memory value.
C7_LoadIsShallowMerge ==
  (last.op = "load_data" /\ last.ok) =>
    LET top == TopLevel(last.pre.files[last.pre.file_path])
    IN /\ \A k \in DOMAIN top :
            IF k = "entries"
              THEN data[k] = top[k] \/ data[k] = Canonical(top[k])
              ELSE data[k] = top[k]
       /\ "exchange_rates" \in DOMAIN top =>
            DOMAIN data.exchange_rates = DOMAIN top.exchange_rates
       /\ \A k \in DOMAIN last.pre.data \ DOMAIN top : data[k] = last.pre.data[k]

C7_Witness ==
  /\ last.op = "load_data"
  /\ last.ok
  /\ last.pre.files[last.pre.file_path] = Catalog(3)
  /\ DOMAIN last.pre.data.exchange_rates = {"USD", "EUR", "HKD", "CNY"}
  /\ DOMAIN data.exchange_rates = {"USD"}
  /\ data.budget = last.pre.data.budget
  /\ data.plans = last.pre.data.plans

\* C8: a load_data that does not succeed (file absent, unreadable, or content
\* malformed) leaves the document exactly as it was, no key changed.
C8_FailedLoadChangesNothing ==
  (last.op = "load_data" /\ ~last.ok) => data = last.pre.data

\* C9: no entry of the in-memory document carries the legacy field
\* entry_type, after any sequence of load, import, add and delete.
C9_NoLegacyField ==
  \A i \in 1..Len(data.entries) : "entry_type" \notin DOMAIN data.entries[i]

\* C10: every entry of the in-memory document has a kind: a non-empty value
\* in the canonical field type.
C10_EveryEntryHasKind ==
  \A i \in 1..Len(data.entries) :
    "type" \in DOMAIN data.entries[i] /\ data.entries[i]["type"] # ""

\* C11: every currency of the exchange-rate table has a strictly positive
\* rate, in every state reached by load, import and set_exchange_rates.
C11_RatesArePositive ==
  \A c \in DOMAIN data.exchange_rates : data.exchange_rates[c] > 0

LegacyFree(entries) ==
  \A i \in 1..Len(entries) : "entry_type" \notin DOMAIN entries[i]

\* C12: round trip. After a successful save_data of a document with
\* legacy-free entries, load_data from the same path gives back the saved
\* document (entries, budget, rates and plans, in order), whether it merges
\* onto the document in memory or onto the defaults of a fresh start; and a
\* successful load_data from a file holding such a saved document leaves
\* exactly that document in memory, whatever was there before.
C12_RoundTrip ==
  /\ (last.op = "save_data" /\ last.ok /\ LegacyFree(data.entries)) =>
       /\ LoadResult(data, files[file_path], FALSE) = [ok |-> TRUE, data |-> data]
       /\ LoadResult(Defaults, files[file_path], FALSE) = [ok |-> TRUE, data |-> data]
  /\ (/\ last.op = "load_data"
      /\ last.ok
      /\ last.pre.files[last.pre.file_path].kind = "object"
      /\ DOMAIN last.pre.files[last.pre.file_path].obj = DOMAIN Defaults
      /\ LegacyFree(last.pre.files[last.pre.file_path].obj.entries))
     => data = last.pre.files[last.pre.file_path].obj

C12_Witness ==
  /\ last.op = "load_data"
  /\ last.ok
  /\ last.pre.files[last.pre.file_path].kind = "object"
  /\ DOMAIN last.pre.files[last.pre.file_path].obj = DOMAIN Defaults
  /\ data = last.pre.files[last.pre.file_path].obj
  /\ last.pre.data # data
  /\ Len(data.entries) > 0
  /\ LegacyFree(data.entries)

\* C13: after a successful import_data(path) the document is the one held
\* before with every top-level key of the imported file replaced by the
\* imported value, its entries normalized, and the other keys kept; the
\* remembered path is path; and the file at path holds this merged document.
C13_ImportMergesAndPersists ==
  (last.op = "import_data" /\ last.ok) =>
    LET top == TopLevel(last.pre.files[last.arg])
    IN /\ \A k \in DOMAIN top :
            data[k] = IF k = "entries" THEN Canonical(top[k]) ELSE top[k]
       /\ \A k \in DOMAIN last.pre.data \ DOMAIN top : data[k] = last.pre.data[k]
       /\ file_path = last.arg
       /\ files[last.arg] = JsonObject(data)

\* every entry's amount multiplied by k
Scaled(d, k) ==
  [d EXCEPT !.entries = [i \in 1..Len(@) |-> [@[i] EXCEPT !["amount"] = k * @]]]

\* every entry's currency (CNY when it carries none) is in the rate table
CurrenciesKnown(d) ==
  \A i \in 1..Len(d.entries) :
    (IF "currency" \in DOMAIN d.entries[i] THEN d.entries[i]["currency"] ELSE "CNY")
      \in DOMAIN d.exchange_rates

Factors == {-1, 0, 2, 3}

\* C15: calculate_totals is linear in the amounts: when every entry's
\* currency is in the rate table, multiplying every amount by a factor k
\* (rates and budget kept) multiplies total_income and total_expenses by k.
C15_TotalsAreLinear ==
  (last.op = "calculate_totals" /\ CurrenciesKnown(data)) =>
    \A k \in Factors :
      /\ CalculateTotals(Scaled(data, k)).total_income = k * totals.total_income
      /\ CalculateTotals(Scaled(data, k)).total_expenses = k * totals.total_expenses
      /\ CalculateTotals(Scaled(data, k)).budget = totals.budget

C15_Witness ==
  /\ last.op = "calculate_totals"
  /\ CurrenciesKnown(data)
  /\ Len(data.entries) = 2
  /\ totals.total_income > 0
  /\ totals.total_expenses > 0
  /\ data.budget > 0
  /\ CalculateTotals(Scaled(data, 3)).total_income = 3 * totals.total_income

\* C17: the pie breakdown holds income and expenses, plus exactly one more
\* bucket when net_income is not zero: deficit = abs(net_income) when it is
\* negative, surplus = net_income when it is positive; no third bucket when
\* net_income is zero.
C17_PieBuckets ==
  last.op = "pie_analytics" =>
    LET t == CalculateTotals(data)
    IN /\ chart.data["income"] = t.total_income
       /\ chart.data["expenses"] = t.total_expenses
       /\ t.net_income < 0 => /\ DOMAIN chart.data = {"income", "expenses", "deficit"}
                              /\ chart.data["deficit"] = -t.net_income
       /\ t.net_income > 0 => /\ DOMAIN chart.data = {"income", "expenses", "surplus"}
                              /\ chart.data["surplus"] = t.net_income
       /\ t.net_income = 0 => DOMAIN chart.data = {"income", "expenses"}

C17_Witness ==
  /\ last.op = "pie_analytics"
  /\ data = ScenarioDocument
  /\ chart.data = [income |-> 10000, expenses |-> 14000, deficit |-> 9000]

\* the indices of a list that are valid positions of a list of n items
InRangeOnly(indices, n) ==
  LET Valid(index) == 0 <= index /\ index < n
  IN SelectSeq(indices, Valid)

\* C18: out-of-range positions never delete anything. delete_entries ignores
\* every index that is negative or not less than the number of entries, alone
\* or mixed with in-range indices: the result is that of the in-range indices
\* alone, and the rest of the document is untouched (deleting [99] from two
\* entries leaves both); delete_plan with such an index changes nothing.
C18_OutOfRangeIgnored ==
  /\ last.op = "delete_entries" =>
       LET before == last.pre.data
           valid == InRangeOnly(last.arg, Len(before.entries))
       IN /\ data = [before EXCEPT !.entries = DeleteEntries(@, valid)]
          /\ valid = <<>> => data = before
          /\ (last.arg = <<99>> /\ Len(before.entries) = 2) =>
               data.entries = before.entries
  /\ (/\ last.op = "delete_plan"
      /\ ~(0 <= last.arg /\ last.arg < Len(last.pre.data.plans)))
     => data = last.pre.data

C18_Witness ==
  /\ last.op = "delete_entries"
  /\ last.arg = <<99, 0, -1>>
  /\ Len(last.pre.data.entries) = 2
  /\ data.entries = <<last.pre.data.entries[2]>>

\* C19: delete_entries removes each named position at most once: for any
\* index list, also one repeating an index, the number of entries removed is
\* the number of distinct in-range indices, and the entries left are those
\* whose original positions are not in the list.
C19_EachPositionAtMostOnce ==
  last.op = "delete_entries" =>
    LET before == last.pre.data.entries
        named == Elements(InRangeOnly(last.arg, Len(before)))
    IN /\ Len(data.entries) = Len(before) - Cardinality(named)
       /\ data.entries = KeepOutside(before, named, 0)

\* the date texts that name a day of the calendar as YYYY-MM-DD
CalendarDates == {"2025-10-24", "2024-02-29"}

\* input record_entry must refuse: an amount that is no number or not above
\* zero, a date that is no calendar date, an invoice kind without invoice
\* info, an empty kind
InvalidInput(form) ==
  \/ form.amount \notin {"5", "2"}
  \/ form.date \notin CalendarDates
  \/ (form.invoice_type # "none" /\ form.invoice_info = "")
  \/ form.type = ""

\* C14: record_entry with invalid input changes nothing: the document in
\* memory is as before and no save is made (the files are as before).
C14_InvalidEntryChangesNothing ==
  (last.op = "record_entry" /\ InvalidInput(last.arg)) =>
    /\ ~last.ok
    /\ data = last.pre.data
    /\ file_path = last.pre.file_path
    /\ files = last.pre.files

C14_Witness ==
  /\ last.op = "record_entry"
  /\ last.arg.amount = "0"
  /\ files[file_path] # JsonObject(data)
  /\ data = last.pre.data
  /\ files = last.pre.files

ControllerOps ==
  {"record_entry", "controller_delete_entries", "controller_set_budget",
   "controller_import_data", "save_as_data", "controller_save_data",
   "save_exchange_rates", "controller_add_plan", "controller_delete_plan"}

InSync == files[file_path] = JsonObject(data)

\* C16 as stated: whenever a mutating operation reports success the file at
\* the remembered path holds exactly the document in memory, and the two
\* differ only between a failed save and the next successful save.
C16_DifferOnlyAfterFailedSave ==
  /\ (last.op \in ControllerOps /\ last.ok) => InSync
  /\ ~InSync => hist.save_failed

\* C16: whenever a mutating operation reports success the file at the
\* remembered path holds exactly the document in memory; the two differ only
\* before the first successful save of the run, or between a failed
\* operation (a save or an import) and the next successful save.
C16_InSyncAfterSuccess ==
  /\ (last.op \in ControllerOps /\ last.ok) => InSync
  /\ ~InSync => (~hist.saved_once \/ hist.op_failed)

C16_Witness ==
  /\ last.op = "record_entry"
  /\ ~last.ok
  /\ last.pre.files[last.pre.file_path] = JsonObject(last.pre.data)
  /\ hist.saved_once
  /\ hist.save_failed
  /\ ~InSync

\* C20: after every record-entry or delete-entries operation, also one whose
\* save fails, the rows of the entry list are the entries in memory, in the
\* same order.
C20_RowsAreTheEntries ==
  last.op \in {"record_entry", "controller_delete_entries"} =>
    /\ Len(rows) = Len(data.entries)
    /\ \A i \in 1..Len(rows) :
         Displayable(data.entries[i]) /\ rows[i] = RowOf(i, data.entries[i])

====
